---------------------------- MODULE Spec2Model ----------------------------
(***************************************************************************)
(* A model of the WhatsApp agent service (src/agent.py): the phone-number  *)
(* normalizer, the Gemini formatter with its fallback, the WbizTool        *)
(* dispatcher and the execute_task orchestrator.                           *)
(*                                                                         *)
(* A Python str is a sequence of one-character strings, so that strip,     *)
(* replace, isdigit, lower, startswith and slicing are computed on         *)
(* characters.  An optional value (None or a value) is a sequence of       *)
(* length 0 or 1.                                                          *)
(***************************************************************************)
EXTENDS Integers, Sequences, FiniteSets, TLC

VARIABLES
    \* AgenticService fields, set once by __init__
    logger,                     \* TRUE when a logger was passed in
    wbiztool_client_id,
    wbiztool_api_key,
    wbiztool_whatsapp_client,
    startup_log,                \* the records __init__ handed to the logger
    \* one execute_task call per request id
    pc,                 \* "idle", "format", "dispatch", "returned", "raised"
    input_data,         \* the dict handed to execute_task
    receiver,           \* local of execute_task
    content,            \* local of execute_task
    formatted_content,  \* local of execute_task
    sent,               \* local of execute_task
    result,             \* << >> or <<the ServiceResult returned>>
    error,              \* << >> or <<the exception execute_task raised>>
    gemini_calls,       \* the generate_content calls made, with their outcomes
    dispatch_calls,     \* the _send_whatsapp_message invocations
    posts,              \* the requests.post calls made, with the gateway's replies
    log,                \* the records handed to the logger
    \* _extract_country_code_and_phone on its own
    phone_number,       \* the argument
    extracted,          \* << >> before the call, <<the pair returned>> after it
    \* main() of src/test_real_purchase.py
    step,               \* where main() stands; "off" when the script is not run
    PURCHASER_API_KEY,  \* os.getenv("PURCHASER_API_KEY"): << >> or <<value>>
    calls,              \* the availability, start_job and purchase requests made
    job_id,             \* << >> or <<job_data["job_id"]>>
    payment_details,    \* << >> or <<the dict posted to /purchase>>
    tx_hash,            \* << >> (None) or <<the hash>>
    elapsed,            \* time.time() - start_time, in seconds
    polls,              \* the number of GET /status requests made
    last_status         \* << >> (None) or <<the job status printed last>>

-----------------------------------------------------------------------------
(* Characters and string helpers                                           *)

Digit == {"0", "1", "2", "3", "4", "5", "6", "7", "8", "9"}

\* str.startswith(prefix)
StartsWith(s, prefix) ==
    /\ Len(prefix) <= Len(s)
    /\ SubSeq(s, 1, Len(prefix)) = prefix

\* str.startswith(tuple of prefixes)
StartsWithAny(s, prefixes) == \E p \in prefixes : StartsWith(s, p)

\* s[n:]
DropFirst(s, n) == SubSeq(s, n + 1, Len(s))

\* s[:n]
TakeFirst(s, n) == SubSeq(s, 1, IF n < Len(s) THEN n ELSE Len(s))

\* str.replace(ch, "") for a one-character ch
RemoveChar(s, ch) ==
    LET Keep(c) == c # ch IN SelectSeq(s, Keep)

\* ''.join(filter(str.isdigit, s))
FilterDigits(s) ==
    LET IsDigit(c) == c \in Digit IN SelectSeq(s, IsDigit)

-----------------------------------------------------------------------------
(* _extract_country_code_and_phone                                         *)

TwoDigitCodes ==
    { <<"4","4">>, <<"4","9">>, <<"3","3">>, <<"3","9">>, <<"3","4">>,
      <<"3","1">>, <<"3","2">>, <<"4","1">>, <<"4","3">>, <<"4","5">>,
      <<"4","6">>, <<"4","7">>, <<"4","8">> }

OneDigitCodes == { <<"1">>, <<"7">> }

ThreeDigitCodes ==
    { <<"8","8","0">>, <<"9","6","6">>, <<"9","7","1">>, <<"9","7","4">>,
      <<"9","6","1">>, <<"9","6","2">>, <<"9","6","5">>, <<"9","6","8">> }

\* The rules applied when no "+" rule returned: 10 digits starting with 9,
\* 11 digits starting with 1, else an empty country code.
DefaultRules(digits) ==
    IF Len(digits) = 10 /\ digits[1] = "9"
    THEN << <<"9","1">>, digits >>
    ELSE IF Len(digits) = 11 /\ digits[1] = "1"
    THEN << <<"1">>, DropFirst(digits, 1) >>
    ELSE << <<>>, digits >>

\* A bug the "+" rules could have: the 91 rule asks for more than 10 digits.
PlusRules_StrictLength(digits) ==
    IF StartsWith(digits, <<"1">>) /\ Len(digits) = 11
    THEN << << <<"1">>, DropFirst(digits, 1) >> >>
    ELSE IF StartsWith(digits, <<"9","1">>) /\ Len(digits) > 10
    THEN << << <<"9","1">>, DropFirst(digits, 2) >> >>
    ELSE IF Len(digits) >= 10
    THEN IF StartsWithAny(digits, TwoDigitCodes)
         THEN << << TakeFirst(digits, 2), DropFirst(digits, 2) >> >>
         ELSE IF StartsWithAny(digits, OneDigitCodes)
         THEN << << TakeFirst(digits, 1), DropFirst(digits, 1) >> >>
         ELSE IF StartsWithAny(digits, ThreeDigitCodes)
         THEN << << TakeFirst(digits, 3), DropFirst(digits, 3) >> >>
         ELSE << >>
    ELSE << >>

\* The branch taken when the cleaned input starts with "+": <<pair>> when
\* one of its return statements is reached, << >> when control falls out
\* of the if/elif chain.
PlusRules(digits) ==
    IF StartsWith(digits, <<"1">>) /\ Len(digits) = 11
    THEN << << <<"1">>, DropFirst(digits, 1) >> >>
    ELSE IF StartsWith(digits, <<"9","1">>) /\ Len(digits) >= 10
    THEN << << <<"9","1">>, DropFirst(digits, 2) >> >>
    ELSE IF Len(digits) >= 10
    THEN IF StartsWithAny(digits, TwoDigitCodes)
         THEN << << TakeFirst(digits, 2), DropFirst(digits, 2) >> >>
         ELSE IF StartsWithAny(digits, OneDigitCodes)
         THEN << << TakeFirst(digits, 1), DropFirst(digits, 1) >> >>
         ELSE IF StartsWithAny(digits, ThreeDigitCodes)
         THEN << << TakeFirst(digits, 3), DropFirst(digits, 3) >> >>
         ELSE << >>
    ELSE << >>

\* The pair (country_code, phone) the function returns.
ExtractCountryCodeAndPhone(raw) ==
    LET cleaned == RemoveChar(RemoveChar(RemoveChar(RemoveChar(raw, " "), "-"), "("), ")")
        digits  == FilterDigits(cleaned)
        plus    == IF StartsWith(cleaned, <<"+">>) THEN PlusRules(digits) ELSE << >>
    IN  IF plus # << >> THEN plus[1] ELSE DefaultRules(digits)

-----------------------------------------------------------------------------
(* More of Python's str and int                                            *)

Whitespace == {" ", "\t", "\n"}

RECURSIVE LStrip(_)
LStrip(s) == IF s # << >> /\ Head(s) \in Whitespace THEN LStrip(Tail(s)) ELSE s

RECURSIVE RStrip(_)
RStrip(s) ==
    IF s # << >> /\ s[Len(s)] \in Whitespace THEN RStrip(SubSeq(s, 1, Len(s) - 1)) ELSE s

\* str.strip()
Strip(s) == RStrip(LStrip(s))

UpperCase ==
    << "A","B","C","D","E","F","G","H","I","J","K","L","M",
       "N","O","P","Q","R","S","T","U","V","W","X","Y","Z" >>

LowerCase ==
    << "a","b","c","d","e","f","g","h","i","j","k","l","m",
       "n","o","p","q","r","s","t","u","v","w","x","y","z" >>

LowerChar(c) ==
    IF \E i \in 1..Len(UpperCase) : UpperCase[i] = c
    THEN LowerCase[CHOOSE i \in 1..Len(UpperCase) : UpperCase[i] = c]
    ELSE c

\* str.lower()
Lower(s) == [i \in 1..Len(s) |-> LowerChar(s[i])]

DigitChars == << "0", "1", "2", "3", "4", "5", "6", "7", "8", "9" >>

DigitValue(c) == (CHOOSE i \in 1..Len(DigitChars) : DigitChars[i] = c) - 1

RECURSIVE NatToStr(_)
NatToStr(n) ==
    IF n < 10 THEN << DigitChars[n + 1] >>
    ELSE NatToStr(n \div 10) \o << DigitChars[(n % 10) + 1] >>

\* str(n) for an int n
IntToStr(n) == IF n < 0 THEN <<"-">> \o NatToStr(-n) ELSE NatToStr(n)

\* int(s) accepts an optional sign and decimal digits (s is already
\* stripped where the service calls it); anything else is a ValueError.
IsIntLiteral(s) ==
    LET body == IF s # << >> /\ Head(s) \in {"+", "-"} THEN Tail(s) ELSE s
    IN  body # << >> /\ \A i \in 1..Len(body) : body[i] \in Digit

RECURSIVE DigitsToNat(_)
DigitsToNat(s) ==
    IF s = << >> THEN 0
    ELSE 10 * DigitsToNat(SubSeq(s, 1, Len(s) - 1)) + DigitValue(s[Len(s)])

\* int(s), for s with IsIntLiteral(s)
ParseInt(s) ==
    IF Head(s) = "-" THEN 0 - DigitsToNat(Tail(s))
    ELSE IF Head(s) = "+" THEN DigitsToNat(Tail(s))
    ELSE DigitsToNat(s)

-----------------------------------------------------------------------------
(* JSON values as response.json() returns them                             *)

JStr(s)  == [t |-> "str",  s |-> s,     n |-> 0]
JInt(n)  == [t |-> "int",  s |-> << >>, n |-> n]
JBool(b) == [t |-> "bool", s |-> << >>, n |-> IF b THEN 1 ELSE 0]
JNull    == [t |-> "null", s |-> << >>, n |-> 0]
\* a list: empty, or holding the one string s
JList(s) == [t |-> "list", s |-> s,     n |-> IF s = << >> THEN 0 ELSE 1]

\* bool(v)
Truthy(v) ==
    CASE v.t = "str"  -> v.s # << >>
      [] v.t = "int"  -> v.n # 0
      [] v.t = "bool" -> v.n = 1
      [] v.t = "null" -> FALSE
      [] v.t = "list" -> v.n > 0

\* isinstance(v, int): bool is a subclass of int
IsInstanceInt(v) == v.t \in {"int", "bool"}

\* str(v)
PyStr(v) ==
    CASE v.t = "str"  -> v.s
      [] v.t = "int"  -> IntToStr(v.n)
      [] v.t = "bool" -> IF v.n = 1 THEN <<"T","r","u","e">> ELSE <<"F","a","l","s","e">>
      [] v.t = "null" -> <<"N","o","n","e">>
      [] v.t = "list" -> IF v.n = 0 THEN <<"[","]">>
                         ELSE <<"[","'">> \o v.s \o <<"'","]">>

\* dict.get(key, default) on a parsed object: a key is absent (<< >>) or
\* present (<<value>>)
DictGet(obj, key, default) == IF obj[key] = << >> THEN default ELSE obj[key][1]

-----------------------------------------------------------------------------
(* Exceptions                                                              *)

\* requests.exceptions.RequestException and its subclasses
RequestExceptions == {"Timeout", "ConnectionError"}

\* Exception and its subclasses, as far as the model raises them
Exceptions ==
    RequestExceptions \cup
    {"ValueError", "AttributeError", "RuntimeError", "GoogleAPIError"}

-----------------------------------------------------------------------------
(* Logging                                                                 *)

LogRecord(level, msg, args) == [level |-> level, msg |-> msg, args |-> args]

\* "if self.logger:" around every logger call
IfLogger(records) == IF logger THEN records ELSE << >>

PreviewLen == 100

\* f"{text[:100]}{'...' if len(text) > 100 else ''}"
Preview(text) ==
    TakeFirst(text, PreviewLen) \o
    (IF Len(text) > PreviewLen THEN <<".", ".", ".">> ELSE << >>)

\* The "Debug logging for WbizTool configuration" block of __init__: a
\* warning for a setting that is empty, else a debug record, which shows
\* the client id and the channel id but only the length of the API key.
ConstructionLog ==
    IfLogger(
        << IF wbiztool_client_id = << >>
           THEN LogRecord("warning", "WBIZTOOL_CLIENT_ID is not set or is empty", << >>)
           ELSE LogRecord("debug", "WBIZTOOL_CLIENT_ID is set", << wbiztool_client_id >>),
           IF wbiztool_api_key = << >>
           THEN LogRecord("warning", "WBIZTOOL_API_KEY is not set or is empty", << >>)
           ELSE LogRecord("debug", "WBIZTOOL_API_KEY is set (length)",
                          << IntToStr(Len(wbiztool_api_key)) >>),
           IF wbiztool_whatsapp_client = << >>
           THEN LogRecord("warning", "WBIZTOOL_WHATSAPP_CLIENT is not set or is empty", << >>)
           ELSE LogRecord("debug", "WBIZTOOL_WHATSAPP_CLIENT is set",
                          << wbiztool_whatsapp_client >>) >>)

-----------------------------------------------------------------------------
(* _format_with_gemini                                                     *)

PromptInstruction ==
    "Format the following content in a clear, professional, and well-structured way. Make it easy to read and understand:\n\n"

GeminiModel == "gemini-2.5-flash"

\* What the try block does with the outcome g of the Gemini call:
\* generate_content raises, or response.text raises, or a text comes back.
FormatTry(text, g) ==
    LET before == LogRecord("info", "Formatting content with Gemini", << Preview(text) >>)
    IN  IF g.kind = "ok"
        THEN [ exc |-> << >>,
               ret |-> g.text,
               log |-> IfLogger(<< before,
                          LogRecord("info", "Gemini formatting completed",
                                    << Preview(g.text) >>) >>) ]
        ELSE [ exc |-> << g.exc >>,
               ret |-> << >>,
               log |-> IfLogger(<< before >>) ]

\* A bug the formatter could have: the fallback returns an empty string.
FormatWithGemini_EmptyFallback(text, g) ==
    LET t == FormatTry(text, g)
    IN  IF t.exc # << >> /\ t.exc[1] \in Exceptions
        THEN [ exc |-> << >>,
               ret |-> << >>,
               log |-> t.log \o IfLogger(<< LogRecord("error",
                          "Error formatting with Gemini", << t.exc[1] >>) >>) ]
        ELSE t

\* The whole function: [exc, ret, log], exc = << >> when it returns ret.
FormatWithGemini(text, g) ==
    LET t == FormatTry(text, g)
    IN  IF t.exc # << >> /\ t.exc[1] \in Exceptions
        THEN [ exc |-> << >>,
               ret |-> text,
               log |-> t.log \o IfLogger(<< LogRecord("error",
                          "Error formatting with Gemini", << t.exc[1] >>) >>) ]
        ELSE t

-----------------------------------------------------------------------------
(* _send_whatsapp_message                                                  *)

WbiztoolApiUrl == "https://wbiztool.com/api/v1/send_msg/"

PostTimeout == 30

MsgTypeText == 0

HttpOk == 200

\* A bug the credential checks could have: the API key is not checked.
MissingCredential_SkipsApiKey ==
    IF wbiztool_client_id = << >> THEN "WBIZTOOL_CLIENT_ID"
    ELSE IF wbiztool_whatsapp_client = << >> THEN "WBIZTOOL_WHATSAPP_CLIENT"
    ELSE ""

\* The first of the three "if not self.wbiztool_...:" checks that returns
\* False, "" when none does.
MissingCredential ==
    IF wbiztool_client_id = << >> THEN "WBIZTOOL_CLIENT_ID"
    ELSE IF wbiztool_api_key = << >> THEN "WBIZTOOL_API_KEY"
    ELSE IF wbiztool_whatsapp_client = << >> THEN "WBIZTOOL_WHATSAPP_CLIENT"
    ELSE ""

\* A bug the payload could have: phone and country_code are exchanged.
Payload_SwapsPhoneAndCode(pair, message) ==
    [ client_id       |-> ParseInt(wbiztool_client_id),
      api_key         |-> wbiztool_api_key,
      whatsapp_client |-> ParseInt(wbiztool_whatsapp_client),
      phone           |-> pair[1],
      country_code    |-> pair[2],
      msg             |-> message,
      msg_type        |-> MsgTypeText ]

\* The form data of the POST; the two int() calls must have succeeded.
Payload(pair, message) ==
    [ client_id       |-> ParseInt(wbiztool_client_id),
      api_key         |-> wbiztool_api_key,
      whatsapp_client |-> ParseInt(wbiztool_whatsapp_client),
      phone           |-> pair[2],
      country_code    |-> pair[1],
      msg             |-> message,
      msg_type        |-> MsgTypeText ]

\* debug_payload, as json.dumps lists its values
DebugPayload(payload) ==
    << IntToStr(payload.client_id), <<"*","*","*">>,
       IntToStr(payload.whatsapp_client), payload.phone,
       payload.country_code, payload.msg, IntToStr(payload.msg_type) >>

\* The status string compared with "success" and "1".
StatusString(response_data) ==
    LET status_value == DictGet(response_data, "status", JStr(<< >>))
    IN  IF IsInstanceInt(status_value) THEN PyStr(status_value)
        ELSE IF Truthy(status_value) THEN Lower(PyStr(status_value))
        ELSE << >>

\* status == "success" or status == "1" or response_data.get("message_id")
IsSuccess(response_data) ==
    \/ StatusString(response_data) = <<"s","u","c","c","e","s","s">>
    \/ StatusString(response_data) = <<"1">>
    \/ Truthy(DictGet(response_data, "message_id", JNull))

\* The response as the code receives it: a gateway that repeats the request
\* in its answer puts the api_key it was sent into the body (response.text,
\* and the "message" of a JSON object).
Received(response, payload) ==
    [ response EXCEPT !.text = IF response.echo THEN payload.api_key ELSE << >> ]

\* What the code does with a response: [exc, ret, log].  response.json()
\* raises JSONDecodeError on a body that is not JSON; .get on parsed JSON
\* that is not an object raises AttributeError.  The error and debug
\* records show the body (response.text, response_data, its "message").
InterpretResponse(response, phone) ==
    IF response.status_code = HttpOk
    THEN CASE response.body.kind = "not_json" ->
                [ exc |-> << >>, ret |-> FALSE,
                  log |-> IfLogger(<< LogRecord("error",
                             "Failed to parse JSON response", << response.text >>) >>) ]
           [] response.body.kind = "non_object" ->
                [ exc |-> << "AttributeError" >>, ret |-> FALSE, log |-> << >> ]
           [] response.body.kind = "object" ->
                IF IsSuccess(response.body)
                THEN [ exc |-> << >>, ret |-> TRUE,
                       log |-> IfLogger(
                           << LogRecord("info", "WhatsApp message sent successfully",
                                        << phone >>) >>
                           \o (IF response.body.message_id # << >>
                               THEN << LogRecord("debug", "WbizTool message ID",
                                         << PyStr(response.body.message_id[1]) >>) >>
                               ELSE << >>)
                           \o << LogRecord("debug", "WbizTool API response",
                                            << response.text >>) >>) ]
                ELSE [ exc |-> << >>, ret |-> FALSE,
                       log |-> IfLogger(
                           << LogRecord("error", "WbizTool API error",
                                        << IF response.text # << >> THEN response.text
                                           ELSE <<"U","n","k","n","o","w","n">> >>),
                              LogRecord("debug", "Full response", << response.text >>) >>) ]
    ELSE [ exc |-> << >>, ret |-> FALSE,
           log |-> IfLogger(<< LogRecord("error", "WbizTool API error",
                      << IntToStr(response.status_code), response.text >>) >>) ]

\* The try block: [exc, ret, posts, log].  gw is what the gateway does with
\* the POST, if one is made: raise, or answer.
SendTry(to, message, gw) ==
    IF MissingCredential # ""
    THEN [ exc |-> << >>, ret |-> FALSE, posts |-> << >>,
           log |-> IfLogger(<< LogRecord("warning", "not configured, skipping WhatsApp send",
                      << MissingCredential >>) >>) ]
    ELSE
    LET pair  == ExtractCountryCodeAndPhone(to)
        intro == IfLogger(<< LogRecord("info", "Sending WhatsApp message",
                                       << pair[2], pair[1], to >>) >>)
    IN  IF ~(IsIntLiteral(wbiztool_client_id) /\ IsIntLiteral(wbiztool_whatsapp_client))
        THEN [ exc |-> << "ValueError" >>, ret |-> FALSE, posts |-> << >>, log |-> intro ]
        ELSE
        LET payload == Payload(pair, message)
            debug   == IfLogger(<< LogRecord("debug", "Sending WbizTool request", << >>),
                                   LogRecord("debug", "Payload", DebugPayload(payload)) >>)
            post    == [ url |-> WbiztoolApiUrl, data |-> payload,
                         timeout |-> PostTimeout, reply |-> gw ]
        IN  IF gw.kind = "raise"
            THEN [ exc |-> << gw.exc >>, ret |-> FALSE, posts |-> << post >>,
                   log |-> intro \o debug ]
            ELSE LET r == InterpretResponse(Received(gw.response, payload), pair[2])
                 IN  [ exc |-> r.exc, ret |-> r.ret, posts |-> << post >>,
                       log |-> intro \o debug \o r.log ]

\* A bug the dispatcher could have: only network errors are caught.
SendWhatsappMessage_OnlyNetworkErrors(to, message, gw) ==
    LET t == SendTry(to, message, gw)
    IN  IF t.exc # << >> /\ t.exc[1] \in RequestExceptions
        THEN [ t EXCEPT !.exc = << >>, !.ret = FALSE,
                 !.log = @ \o IfLogger(<< LogRecord("error",
                            "Network error sending WhatsApp message", << t.exc[1] >>) >>) ]
        ELSE t

\* A bug the dispatcher could have: a POST that fails is made once more.
SendWhatsappMessage_RetriesOnFailure(to, message, gw) ==
    LET t == SendTry(to, message, gw)
        again == IF t.exc # << >> \/ ~t.ret THEN t.posts ELSE << >>
    IN  IF t.exc # << >> /\ t.exc[1] \in Exceptions
        THEN [ t EXCEPT !.exc = << >>, !.ret = FALSE, !.posts = @ \o again,
                 !.log = @ \o IfLogger(<< LogRecord("error",
                            "Error sending WhatsApp message", << t.exc[1] >>) >>) ]
        ELSE [ t EXCEPT !.posts = @ \o again ]

\* The whole function: the try block, then the two except clauses.
SendWhatsappMessage(to, message, gw) ==
    LET t == SendTry(to, message, gw)
    IN  IF t.exc # << >> /\ t.exc[1] \in RequestExceptions
        THEN [ t EXCEPT !.exc = << >>, !.ret = FALSE,
                 !.log = @ \o IfLogger(<< LogRecord("error",
                            "Network error sending WhatsApp message", << t.exc[1] >>) >>) ]
        ELSE IF t.exc # << >> /\ t.exc[1] \in Exceptions
        THEN [ t EXCEPT !.exc = << >>, !.ret = FALSE,
                 !.log = @ \o IfLogger(<< LogRecord("error",
                            "Error sending WhatsApp message", << t.exc[1] >>) >>) ]
        ELSE t

-----------------------------------------------------------------------------
(* ServiceResult and execute_task                                          *)

TaskName == "whatsapp_agent"

\* A bug the result could have: the two content fields are exchanged.
ServiceResult_ContentsSwapped(to, original, formatted, was_sent) ==
    [ receiver          |-> to,
      original_content  |-> formatted,
      formatted_content |-> original,
      sent              |-> was_sent,
      raw               |-> original,
      json_dict         |-> [ receiver          |-> to,
                              original_content  |-> formatted,
                              formatted_content |-> original,
                              sent              |-> was_sent,
                              task              |-> TaskName ] ]

\* ServiceResult.__init__
ServiceResult(to, original, formatted, was_sent) ==
    [ receiver          |-> to,
      original_content  |-> original,
      formatted_content |-> formatted,
      sent              |-> was_sent,
      raw               |-> formatted,
      json_dict         |-> [ receiver          |-> to,
                              original_content  |-> original,
                              formatted_content |-> formatted,
                              sent              |-> was_sent,
                              task              |-> TaskName ] ]

\* A bug the validation could have: only the receiver is checked.
ValidationError_ReceiverOnly(to, text) ==
    IF to = << >> THEN "Receiver parameter is required" ELSE ""

\* The message of the ValueError the two "if not ...:" checks raise, ""
\* when both pass.
ValidationError(to, text) ==
    IF to = << >> THEN "Receiver parameter is required"
    ELSE IF text = << >> THEN "Content parameter is required"
    ELSE ""

\* A bug the orchestrator could have: the raw text goes to the dispatcher.
DispatchedMessage_Raw(original, formatted) == original

\* The message argument of the _send_whatsapp_message call.
DispatchedMessage(original, formatted) == formatted

-----------------------------------------------------------------------------
(* The environment: callers, configuration, the two external services      *)

\* The request ids, and the ones a caller uses.
Reqs == {"r1", "r2"}

Callers == {"r1"}

\* An environment variable is unset (<< >>) or set (<<value>>).
ClientIdEnv       == { << >>, << <<" ">> >>, << <<" ","1","2"," ">> >>, << <<"x","1">> >> }
ApiKeyEnv         == { << >>, << << >> >>, << <<"k","3","y">> >> }
WhatsappClientEnv == { << >>, << <<"7">> >>, << <<"w">> >> }

\* os.getenv(NAME) or os.environ.get(NAME, "")
EnvOrEmpty(env) == IF env # << >> /\ env[1] # << >> THEN env[1] ELSE << >>

Receivers ==
    { <<"+","1"," ","(","2","1","2",")"," ","5","5","5","-","0","1","0","0">>,
      <<"+","4","4","1","2","3","4","5","6","7","8","9","0">>,
      <<"9","8","1","2","3","4","5","6","7","8">>,
      <<"1","2","3">> }

Contents == { <<"h","e","l","l","o">>, <<"h","i">> }

\* The dicts a caller passes: each key absent, empty or filled.
InputData ==
    [ receiver : { << >>, << << >> >> } \cup { << x >> : x \in Receivers },
      content  : { << >>, << << >> >> } \cup { << x >> : x \in Contents } ]

\* What the Gemini call does: generate_content raises, response.text
\* raises, or a text is returned (which may be empty).
GeminiOutcomes ==
    { [kind |-> "raise_generate", exc |-> "GoogleAPIError", text |-> << >>],
      [kind |-> "raise_text",     exc |-> "ValueError",     text |-> << >>],
      [kind |-> "ok", exc |-> "", text |-> << >>],
      [kind |-> "ok", exc |-> "", text |-> <<"*","H","e","l","l","o","*">>] }

Body(kind, status, message_id) ==
    [kind |-> kind, status |-> status, message_id |-> message_id]

StatusValues ==
    { JStr(<<"s","u","c","c","e","s","s">>), JStr(<<"S","u","c","c","e","s","s">>),
      JStr(<<"1">>), JInt(1), JStr(<<"f","a","i","l","e","d">>), JStr(<< >>),
      JInt(0), JInt(2), JBool(TRUE), JNull,
      JList(<<"s","u","c","c","e","s","s">>) }

MessageIdValues ==
    { JStr(<<"a","b","c">>), JStr(<< >>), JInt(0), JInt(7), JNull }

ObjectBodies ==
    { Body("object", << >>, << >>) }
    \cup { Body("object", << s >>, << >>) : s \in StatusValues }
    \cup { Body("object", << >>, << m >>) : m \in MessageIdValues }
    \cup { Body("object", << JStr(<<"f","a","i","l","e","d">>) >>, << m >>) :
              m \in MessageIdValues }

Bodies ==
    ObjectBodies \cup
    { Body("not_json", << >>, << >>), Body("non_object", << >>, << >>) }

ErrorBodies ==
    { Body("not_json", << >>, << >>), Body("object", << >>, << >>) }

Reply(kind, exc, status_code, body) ==
    [ kind |-> kind, exc |-> exc,
      response |-> [ status_code |-> status_code, body |-> body,
                     echo |-> FALSE, text |-> << >> ] ]

\* An answer that repeats the request it got.
EchoReply(status_code, body) ==
    [ kind |-> "response", exc |-> "",
      response |-> [ status_code |-> status_code, body |-> body,
                     echo |-> TRUE, text |-> << >> ] ]

\* What the gateway does with a POST.
GatewayBehaviours ==
    { Reply("raise", e, 0, Body("not_json", << >>, << >>)) :
         e \in {"Timeout", "ConnectionError", "RuntimeError"} }
    \cup { Reply("response", "", 200, b) : b \in Bodies }
    \cup { Reply("response", "", 500, b) : b \in ErrorBodies }
    \cup { EchoReply(401, Body("not_json", << >>, << >>)),
           EchoReply(200, Body("object", << JStr(<<"f","a","i","l","e","d">>) >>, << >>)),
           EchoReply(200, Body("object", << JInt(1) >>, << >>)) }

-----------------------------------------------------------------------------
(* The state machine                                                       *)

service == << logger, wbiztool_client_id, wbiztool_api_key, wbiztool_whatsapp_client,
             startup_log >>

tasks == << pc, input_data, receiver, content, formatted_content, sent, result,
            error, gemini_calls, dispatch_calls, posts, log >>

harness == << phone_number, extracted >>

script == << step, PURCHASER_API_KEY, calls, job_id, payment_details, tx_hash,
             elapsed, polls, last_status >>

vars == << service, tasks, harness, script >>

\* main() is not run.
ScriptOff ==
    /\ step = "off"
    /\ PURCHASER_API_KEY = << >>
    /\ calls = << >>
    /\ job_id = << >>
    /\ payment_details = << >>
    /\ tx_hash = << >>
    /\ elapsed = 0
    /\ polls = 0
    /\ last_status = << >>

\* AgenticService.__init__, GEMINI_API_KEY being set: the three gateway
\* settings are read from the environment and stripped.
ServiceInit ==
    /\ logger \in BOOLEAN
    /\ \E e \in ClientIdEnv : wbiztool_client_id = Strip(EnvOrEmpty(e))
    /\ \E e \in ApiKeyEnv : wbiztool_api_key = Strip(EnvOrEmpty(e))
    /\ \E e \in WhatsappClientEnv : wbiztool_whatsapp_client = Strip(EnvOrEmpty(e))
    /\ startup_log = ConstructionLog

TasksInit ==
    /\ pc = [r \in Reqs |-> "idle"]
    /\ input_data = [r \in Reqs |-> [receiver |-> << >>, content |-> << >>]]
    /\ receiver = [r \in Reqs |-> << >>]
    /\ content = [r \in Reqs |-> << >>]
    /\ formatted_content = [r \in Reqs |-> << >>]
    /\ sent = [r \in Reqs |-> FALSE]
    /\ result = [r \in Reqs |-> << >>]
    /\ error = [r \in Reqs |-> << >>]
    /\ gemini_calls = [r \in Reqs |-> << >>]
    /\ dispatch_calls = [r \in Reqs |-> << >>]
    /\ posts = [r \in Reqs |-> << >>]
    /\ log = [r \in Reqs |-> << >>]

Init ==
    /\ ServiceInit
    /\ TasksInit
    /\ phone_number = << >>
    /\ extracted = << >>
    /\ ScriptOff

\* execute_task up to the formatter call: read the two keys, validate.
ExecuteTaskStart(r, d) ==
    /\ pc[r] = "idle"
    /\    LET to   == DictGet(d, "receiver", << >>)
              text == DictGet(d, "content", << >>)
              bad  == ValidationError(to, text)
          IN  /\ input_data' = [input_data EXCEPT ![r] = d]
              /\ receiver' = [receiver EXCEPT ![r] = to]
              /\ content' = [content EXCEPT ![r] = text]
              /\ IF bad # ""
                 THEN /\ pc' = [pc EXCEPT ![r] = "raised"]
                      /\ error' = [error EXCEPT ![r] = << "ValueError" >>]
                      /\ log' = [log EXCEPT ![r] = @ \o IfLogger(<<
                                   LogRecord("error", bad, << >>) >>)]
                 ELSE /\ pc' = [pc EXCEPT ![r] = "format"]
                      /\ error' = error
                      /\ log' = [log EXCEPT ![r] = @ \o IfLogger(<<
                                   LogRecord("info", "Processing WhatsApp agent task",
                                             << to >>) >>)]
    /\ UNCHANGED << service, harness, script, formatted_content, sent, result,
                    gemini_calls, dispatch_calls, posts >>

\* A bug the orchestrator could have: the formatted text is kept in an
\* attribute of the service, which every call in flight reads.
ExecuteTaskFormat_SharedAttribute(r, g) ==
    /\ pc[r] = "format"
    /\    LET f == FormatWithGemini(content[r], g)
          IN  /\ gemini_calls' = [gemini_calls EXCEPT ![r] = Append(@,
                    [ model   |-> GeminiModel,
                      prompt  |-> [instruction |-> PromptInstruction, text |-> content[r]],
                      outcome |-> g ])]
              /\ log' = [log EXCEPT ![r] = @ \o f.log]
              /\ IF f.exc # << >>
                 THEN /\ pc' = [pc EXCEPT ![r] = "raised"]
                      /\ error' = [error EXCEPT ![r] = f.exc]
                      /\ formatted_content' = formatted_content
                 ELSE /\ pc' = [pc EXCEPT ![r] = "dispatch"]
                      /\ error' = error
                      /\ formatted_content' = [q \in Reqs |-> f.ret]
    /\ UNCHANGED << service, harness, script, input_data, receiver, content, sent, result,
                    dispatch_calls, posts >>

\* formatted_content = await self._format_with_gemini(content)
ExecuteTaskFormat(r, g) ==
    /\ pc[r] = "format"
    /\    LET f == FormatWithGemini(content[r], g)
          IN  /\ gemini_calls' = [gemini_calls EXCEPT ![r] = Append(@,
                    [ model   |-> GeminiModel,
                      prompt  |-> [instruction |-> PromptInstruction, text |-> content[r]],
                      outcome |-> g ])]
              /\ log' = [log EXCEPT ![r] = @ \o f.log]
              /\ IF f.exc # << >>
                 THEN /\ pc' = [pc EXCEPT ![r] = "raised"]
                      /\ error' = [error EXCEPT ![r] = f.exc]
                      /\ formatted_content' = formatted_content
                 ELSE /\ pc' = [pc EXCEPT ![r] = "dispatch"]
                      /\ error' = error
                      /\ formatted_content' = [formatted_content EXCEPT ![r] = f.ret]
    /\ UNCHANGED << service, harness, script, input_data, receiver, content, sent, result,
                    dispatch_calls, posts >>

\* sent = await self._send_whatsapp_message(receiver, formatted_content),
\* then the ServiceResult is built and returned.
ExecuteTaskDispatch(r, gw) ==
    /\ pc[r] = "dispatch"
    /\    LET message == DispatchedMessage(content[r], formatted_content[r])
              s == SendWhatsappMessage(receiver[r], message, gw)
          IN  /\ dispatch_calls' = [dispatch_calls EXCEPT ![r] = Append(@,
                    [ receiver |-> receiver[r], message |-> message,
                      exc |-> s.exc, ret |-> s.ret ])]
              /\ posts' = [posts EXCEPT ![r] = @ \o s.posts]
              /\ IF s.exc # << >>
                 THEN /\ pc' = [pc EXCEPT ![r] = "raised"]
                      /\ error' = [error EXCEPT ![r] = s.exc]
                      /\ log' = [log EXCEPT ![r] = @ \o s.log]
                      /\ UNCHANGED << sent, result >>
                 ELSE /\ pc' = [pc EXCEPT ![r] = "returned"]
                      /\ error' = error
                      /\ sent' = [sent EXCEPT ![r] = s.ret]
                      /\ log' = [log EXCEPT ![r] = @ \o s.log \o IfLogger(<<
                                   LogRecord("info", "WhatsApp agent task completed",
                                             << s.ret >>) >>)]
                      /\ result' = [result EXCEPT ![r] = << ServiceResult(
                                      receiver[r], content[r], formatted_content[r],
                                      s.ret) >>]
    /\ UNCHANGED << service, harness, script, input_data, receiver, content,
                    formatted_content, gemini_calls >>

\* One caller: a single execute_task call, whatever its input and whatever
\* the two external services do.
Next ==
    \E r \in Callers :
        \/ \E d \in InputData : ExecuteTaskStart(r, d)
        \/ \E g \in GeminiOutcomes : ExecuteTaskFormat(r, g)
        \/ \E gw \in GatewayBehaviours : ExecuteTaskDispatch(r, gw)

Spec == Init /\ [][Next]_vars

-----------------------------------------------------------------------------
(* Two callers on one service instance                                     *)

\* Two inputs that differ in both keys, and one that is rejected.
ConcurrentInputData ==
    { [ receiver |-> << <<"+","4","4","1","2","3","4","5","6","7","8","9","0">> >>,
        content  |-> << <<"h","e","l","l","o">> >> ],
      [ receiver |-> << <<"9","8","1","2","3","4","5","6","7","8">> >>,
        content  |-> << <<"h","i">> >> ],
      [ receiver |-> << >>, content |-> << <<"h","i">> >> ] }

ConcurrentGeminiOutcomes ==
    { [kind |-> "raise_generate", exc |-> "GoogleAPIError", text |-> << >>],
      [kind |-> "ok", exc |-> "", text |-> <<"*","H","e","l","l","o","*">>] }

ConcurrentGatewayBehaviours ==
    { Reply("raise", "Timeout", 0, Body("not_json", << >>, << >>)),
      Reply("response", "", 200, Body("object", << JStr(<<"s","u","c","c","e","s","s">>) >>, << >>)),
      Reply("response", "", 200, Body("object", << JStr(<<"f","a","i","l","e","d">>) >>, << >>)),
      Reply("response", "", 500, Body("not_json", << >>, << >>)) }

\* One service, its two numeric settings in place, the API key set or not.
ConcurrentInit ==
    /\ Init
    /\ wbiztool_client_id = <<"1","2">>
    /\ wbiztool_whatsapp_client = <<"7">>

\* Both execute_task calls are in flight: each await is a point where the
\* other call may run.
NextConcurrent ==
    \E r \in Reqs :
        \/ \E d \in ConcurrentInputData : ExecuteTaskStart(r, d)
        \/ \E g \in ConcurrentGeminiOutcomes : ExecuteTaskFormat(r, g)
        \/ \E gw \in ConcurrentGatewayBehaviours : ExecuteTaskDispatch(r, gw)

SpecConcurrent == ConcurrentInit /\ [][NextConcurrent]_vars

-----------------------------------------------------------------------------
(* The normalizer on its own: every input of a bounded family              *)

MaxFill == 11

FillDigit == "5"

\* What precedes the digits: nothing, a plus, a plus behind stripped
\* characters, a plus behind a character that is not stripped.
Leads == { << >>, <<"+">>, <<" ", "(", "+">>, <<"x", "+">> }

\* What stands between the leading digits and the rest.
Separators == { << >>, <<"-">>, <<")", " ">>, <<".", "+">> }

\* Every digit string of at most three digits.
DigitPrefixes == UNION { [1..n -> Digit] : n \in 0..3 }

Fill(n) == [i \in 1..n |-> FillDigit]

\* A service that handles no request; the harness draws an input.
NormalizeInit ==
    /\ logger = FALSE
    /\ wbiztool_client_id = << >>
    /\ wbiztool_api_key = << >>
    /\ wbiztool_whatsapp_client = << >>
    /\ startup_log = << >>
    /\ TasksInit
    /\ \E lead \in Leads, p \in DigitPrefixes, sep \in Separators, n \in 0..MaxFill :
          phone_number = lead \o p \o sep \o Fill(n)
    /\ extracted = << >>
    /\ ScriptOff

Normalize ==
    /\ extracted = << >>
    /\ extracted' = << ExtractCountryCodeAndPhone(phone_number) >>
    /\ UNCHANGED << service, tasks, script, phone_number >>

NormalizeNext == Normalize

SpecNormalize == NormalizeInit /\ [][NormalizeNext]_vars

-----------------------------------------------------------------------------
(* The purchase script, main() of src/test_real_purchase.py                *)
(*                                                                         *)
(* The texts of the script are TLA+ strings, except an amount, which       *)
(* int() reads character by character.  An HTTP reply is                   *)
(* [kind, exc, status_code, body]; a body is [json, obj], json telling     *)
(* what response.json() gives: "invalid" (it raises), "list" or "object".  *)

AgentUrl == "http://127.0.0.1:8003"

PaymentServiceUrl == "http://localhost:3001/api/v1"

Network == "Preprod"

PurchaserIdentifier == "2ccab9ca3c8fd56f"

DefaultReceiver == "+1234567890"

DefaultContent ==
    "This is a test message sent via Masumi-paid WhatsApp agent. The AI will format this content before sending."

AvailabilityTimeout == 10

StartJobTimeout == 30

PurchaseTimeout == 60

StatusTimeout == 10

MaxWait == 300

SleepSeconds == 5

\* if not PURCHASER_API_KEY: the variable is unset or empty
ApiKeyMissing(key) == key = << >> \/ key[1] = ""

\* A bug a client could have: only server errors count as failures.
RaisesForStatus_ServerErrorsOnly(status_code) == status_code >= 500 /\ status_code < 600

\* response.raise_for_status() raises HTTPError for 4xx and 5xx
RaisesForStatus(status_code) == status_code >= 400 /\ status_code < 600

\* input(prompt) or default
InputOr(typed, default) == IF typed = "" THEN default ELSE typed

HttpCall(method, url, json, token, timeout, reply) ==
    [ method |-> method, url |-> url, json |-> json, token |-> token,
      timeout |-> timeout, reply |-> reply ]

NoObject == [k \in {} |-> ""]

ScriptReply(kind, exc, status_code, json, obj) ==
    [ kind |-> kind, exc |-> exc, status_code |-> status_code,
      body |-> [json |-> json, obj |-> obj] ]

\* The exception the request and the parsing of its reply raise, "" if
\* none: requests.get/post, raise_for_status(), response.json().
ReplyError(reply, parsed) ==
    IF reply.kind = "raise" THEN reply.exc
    ELSE IF RaisesForStatus(reply.status_code) THEN "HTTPError"
    ELSE IF parsed /\ reply.body.json = "invalid" THEN "JSONDecodeError"
    ELSE ""

\* int(v) for a JSON value v: [exc, n]
IntOf(v) ==
    CASE v.t = "str" ->
            IF IsIntLiteral(Strip(v.s))
            THEN [exc |-> "", n |-> ParseInt(Strip(v.s))]
            ELSE [exc |-> "ValueError", n |-> 0]
      [] v.t \in {"int", "bool"} -> [exc |-> "", n |-> v.n]
      [] OTHER -> [exc |-> "TypeError", n |-> 0]

\* The keys of job_data read before amounts[0]["amount"], and after it.
JobKeysBeforeAmount == << "job_id", "blockchainIdentifier", "amounts" >>

JobKeysAfterAmount ==
    << "input_hash", "sellerVKey", "agentIdentifier", "unlockTime",
       "externalDisputeUnlockTime", "submitResultTime", "payByTime",
       "identifierFromPurchaser" >>

MissingAny(job, keys) == \E i \in 1..Len(keys) : keys[i] \notin DOMAIN job

\* Lines 159-180: the exception reading the job raises, "" if none.
JobDataError(body) ==
    IF body.json = "list" THEN "TypeError"
    ELSE LET job == body.obj
         IN  IF MissingAny(job, JobKeysBeforeAmount) THEN "KeyError"
             ELSE IF job["amounts"] = << >> THEN "IndexError"
             ELSE IF job["amounts"][1].amount = << >> THEN "KeyError"
             ELSE IF IntOf(job["amounts"][1].amount[1]).exc # ""
                  THEN IntOf(job["amounts"][1].amount[1]).exc
             ELSE IF MissingAny(job, JobKeysAfterAmount) THEN "KeyError"
             ELSE ""

\* The dict posted to /purchase.
PaymentDetails(job) ==
    [ blockchainIdentifier |-> job["blockchainIdentifier"],
      network |-> Network,
      inputHash |-> job["input_hash"],
      sellerVkey |-> job["sellerVKey"],
      agentIdentifier |-> job["agentIdentifier"],
      paymentType |-> "Web3CardanoV1",
      unlockTime |-> job["unlockTime"],
      externalDisputeUnlockTime |-> job["externalDisputeUnlockTime"],
      submitResultTime |-> job["submitResultTime"],
      payByTime |-> job["payByTime"],
      identifierFromPurchaser |-> job["identifierFromPurchaser"],
      amounts |-> job["amounts"] ]

\* Step 2's try block: [exc, job_id, payment_details]
StartJobTry(reply) ==
    LET e == IF ReplyError(reply, TRUE) # "" THEN ReplyError(reply, TRUE)
             ELSE JobDataError(reply.body)
    IN  IF e # ""
        THEN [ exc |-> e, job_id |-> << >>, payment_details |-> << >> ]
        ELSE [ exc |-> "", job_id |-> << reply.body.obj["job_id"] >>,
               payment_details |-> << PaymentDetails(reply.body.obj) >> ]

\* payment_result.get("data", {}).get("txHash") or
\* payment_result.get("data", {}).get("transactionHash"): [exc, tx_hash].
\* The object is [data, txHash, transactionHash]: data is "absent", "null"
\* or "object"; a hash is << >> when its key is absent.
TxHashOf(body) ==
    IF body.json = "list" \/ body.obj.data = "null"
    THEN [ exc |-> "AttributeError", tx_hash |-> << >> ]
    ELSE IF body.obj.data = "absent"
    THEN [ exc |-> "", tx_hash |-> << >> ]
    ELSE IF body.obj.txHash # << >> /\ body.obj.txHash[1] # ""
    THEN [ exc |-> "", tx_hash |-> body.obj.txHash ]
    ELSE [ exc |-> "", tx_hash |-> body.obj.transactionHash ]

\* Step 3's try block: [exc, tx_hash]
PaymentTry(reply) ==
    IF ReplyError(reply, TRUE) # ""
    THEN [ exc |-> ReplyError(reply, TRUE), tx_hash |-> << >> ]
    ELSE TxHashOf(reply.body)

\* A bug the loop could have: only a completed job ends the polling.
IsTerminalStatus_CompletedOnly(job_status) == job_status = << "completed" >>

\* if job_status == "completed": ... break / if job_status == "failed": ... break
IsTerminalStatus(job_status) ==
    job_status = << "completed" >> \/ job_status = << "failed" >>

\* The try block of one loop iteration: [exc, job_status], job_status being
\* status_data.get("status"): << >> for None.
StatusTry(reply) ==
    IF ReplyError(reply, TRUE) # ""
    THEN [ exc |-> ReplyError(reply, TRUE), job_status |-> << >> ]
    ELSE IF reply.body.json = "list"
    THEN [ exc |-> "AttributeError", job_status |-> << >> ]
    ELSE [ exc |-> "", job_status |-> reply.body.obj.status ]

\* --- what the environment of the script does ---

PurchaserApiKeyEnv == { << >>, << "" >>, << "purchaser-key" >> }

\* What the user types at the receiver prompt (the content prompt is left
\* empty).
TypedReceivers == { "", "+4412345678" }

AvailabilityReplies ==
    { ScriptReply("raise", "ConnectionError", 0, "invalid", NoObject),
      ScriptReply("response", "", 200, "object", NoObject),
      ScriptReply("response", "", 404, "invalid", NoObject),
      ScriptReply("response", "", 503, "invalid", NoObject) }

\* job_data["amounts"]: a list of objects, each with or without "amount".
AmountsValues ==
    { << >>,
      << [amount |-> << >>] >>,
      << [amount |-> << JStr(<<"a","b","c">>) >>] >>,
      << [amount |-> << JNull >>] >>,
      << [amount |-> << JStr(<<"2","0","0","0","0","0","0">>) >>] >> }

FullJob(amounts) ==
    [ job_id |-> "job-1", blockchainIdentifier |-> "contract-1", amounts |-> amounts,
      input_hash |-> "hash-1", sellerVKey |-> "vkey-1", agentIdentifier |-> "agent-1",
      unlockTime |-> "1700000300", externalDisputeUnlockTime |-> "1700000600",
      submitResultTime |-> "1700000200", payByTime |-> "1700000100",
      identifierFromPurchaser |-> PurchaserIdentifier ]

PaidJob == FullJob(<< [amount |-> << JStr(<<"2","0","0","0","0","0","0">>) >>] >>)

Without(job, key) == [k \in DOMAIN job \ {key} |-> job[k]]

StartJobReplies ==
    { ScriptReply("raise", "Timeout", 0, "invalid", NoObject),
      ScriptReply("response", "", 500, "invalid", NoObject),
      ScriptReply("response", "", 200, "invalid", NoObject),
      ScriptReply("response", "", 200, "list", NoObject) }
    \cup { ScriptReply("response", "", 200, "object", FullJob(a)) : a \in AmountsValues }
    \cup { ScriptReply("response", "", 200, "object", Without(PaidJob, k)) :
              k \in DOMAIN PaidJob }

PaymentData(data, txHash, transactionHash) ==
    [ data |-> data, txHash |-> txHash, transactionHash |-> transactionHash ]

PurchaseReplies ==
    { ScriptReply("raise", "Timeout", 0, "invalid", PaymentData("absent", << >>, << >>)),
      ScriptReply("response", "", 402, "invalid", PaymentData("absent", << >>, << >>)),
      ScriptReply("response", "", 200, "invalid", PaymentData("absent", << >>, << >>)),
      ScriptReply("response", "", 200, "list", PaymentData("absent", << >>, << >>)),
      ScriptReply("response", "", 200, "object", PaymentData("null", << >>, << >>)),
      ScriptReply("response", "", 200, "object", PaymentData("absent", << >>, << >>)),
      ScriptReply("response", "", 200, "object", PaymentData("object", << "tx-1" >>, << >>)),
      ScriptReply("response", "", 200, "object",
                  PaymentData("object", << "" >>, << "tx-2" >>)) }

StatusData(status) == [ status |-> status ]

StatusReplies ==
    { ScriptReply("raise", "ConnectionError", 0, "invalid", StatusData(<< >>)),
      ScriptReply("response", "", 500, "invalid", StatusData(<< >>)),
      ScriptReply("response", "", 200, "invalid", StatusData(<< >>)),
      ScriptReply("response", "", 200, "list", StatusData(<< >>)) }
    \cup { ScriptReply("response", "", 200, "object", StatusData(s)) :
              s \in { << >>, << "running" >>, << "completed" >>, << "failed" >> } }

\* How long a GET /status takes: no time, or its whole timeout.
PollDurations == { 0, StatusTimeout }

\* --- main(), step by step ---

PurchaseInit ==
    /\ logger = FALSE
    /\ wbiztool_client_id = << >>
    /\ wbiztool_api_key = << >>
    /\ wbiztool_whatsapp_client = << >>
    /\ startup_log = << >>
    /\ TasksInit
    /\ phone_number = << >>
    /\ extracted = << >>
    /\ step = "config"
    /\ PURCHASER_API_KEY \in PurchaserApiKeyEnv
    /\ calls = << >>
    /\ job_id = << >>
    /\ payment_details = << >>
    /\ tx_hash = << >>
    /\ elapsed = 0
    /\ polls = 0
    /\ last_status = << >>

\* Lines 85-121: without a purchaser key the script prints the setup help
\* and returns.
CheckConfig ==
    /\ step = "config"
    /\ step' = IF ApiKeyMissing(PURCHASER_API_KEY) THEN "ended" ELSE "availability"
    /\ UNCHANGED << service, tasks, harness, PURCHASER_API_KEY, calls, job_id,
                    payment_details, tx_hash, elapsed, polls, last_status >>

\* Step 1, lines 126-134.
CheckAvailability(reply) ==
    /\ step = "availability"
    /\ calls' = Append(calls, HttpCall("GET", << AgentUrl, "/availability" >>,
                                       << >>, << >>, AvailabilityTimeout, reply))
    /\ step' = IF ReplyError(reply, FALSE) # "" THEN "ended" ELSE "start_job"
    /\ UNCHANGED << service, tasks, harness, PURCHASER_API_KEY, job_id,
                    payment_details, tx_hash, elapsed, polls, last_status >>

\* Step 2, lines 137-193.
StartJob(typed, reply) ==
    /\ step = "start_job"
    /\    LET payload == [ identifier_from_purchaser |-> PurchaserIdentifier,
                           input_data |-> [ receiver |-> InputOr(typed, DefaultReceiver),
                                            content  |-> InputOr("", DefaultContent) ] ]
              t == StartJobTry(reply)
          IN  /\ calls' = Append(calls, HttpCall("POST", << AgentUrl, "/start_job" >>,
                                                 << payload >>, << >>, StartJobTimeout, reply))
              /\ job_id' = t.job_id
              /\ payment_details' = t.payment_details
              /\ step' = IF t.exc # "" THEN "ended" ELSE "payment"
    /\ UNCHANGED << service, tasks, harness, PURCHASER_API_KEY, tx_hash, elapsed,
                    polls, last_status >>

\* Step 3, lines 196-244, and lines 253-255 that start the clock.
MakePayment(reply) ==
    /\ step = "payment"
    /\    LET t == PaymentTry(reply)
          IN  /\ calls' = Append(calls, HttpCall("POST", << PaymentServiceUrl, "/purchase" >>,
                                    payment_details, PURCHASER_API_KEY, PurchaseTimeout, reply))
              /\ tx_hash' = t.tx_hash
              /\ step' = IF t.exc # "" THEN "ended" ELSE "loop"
    /\ elapsed' = 0
    /\ last_status' = << >>
    /\ UNCHANGED << service, tasks, harness, PURCHASER_API_KEY, job_id,
                    payment_details, polls >>

\* while (time.time() - start_time) < max_wait
LoopTest ==
    /\ step = "loop"
    /\ step' = IF elapsed < MaxWait THEN "poll" ELSE "summary"
    /\ UNCHANGED << service, tasks, harness, PURCHASER_API_KEY, calls, job_id,
                    payment_details, tx_hash, elapsed, polls, last_status >>

\* Lines 258-290 and 294-295: one GET /status, which takes d seconds.
PollStatus(reply, d) ==
    /\ step = "poll"
    /\ polls' = polls + 1
    /\ elapsed' = elapsed + d
    /\    LET t == StatusTry(reply)
          IN  IF t.exc # ""
              THEN /\ last_status' = last_status
                   /\ step' = "sleep"
              ELSE /\ last_status' = IF t.job_status # last_status THEN t.job_status
                                     ELSE last_status
                   /\ step' = IF IsTerminalStatus(t.job_status) THEN "summary" ELSE "sleep"
    /\ UNCHANGED << service, tasks, harness, PURCHASER_API_KEY, calls, job_id,
                    payment_details, tx_hash >>

\* await asyncio.sleep(5), on line 292 or on line 296.
Sleep ==
    /\ step = "sleep"
    /\ elapsed' = elapsed + SleepSeconds
    /\ step' = "loop"
    /\ UNCHANGED << service, tasks, harness, PURCHASER_API_KEY, calls, job_id,
                    payment_details, tx_hash, polls, last_status >>

\* Step 5, lines 298-330.
Summary ==
    /\ step = "summary"
    /\ step' = "done"
    /\ UNCHANGED << service, tasks, harness, PURCHASER_API_KEY, calls, job_id,
                    payment_details, tx_hash, elapsed, polls, last_status >>

NextPurchase ==
    \/ CheckConfig
    \/ \E reply \in AvailabilityReplies : CheckAvailability(reply)
    \/ \E typed \in TypedReceivers, reply \in StartJobReplies : StartJob(typed, reply)
    \/ \E reply \in PurchaseReplies : MakePayment(reply)
    \/ LoopTest
    \/ \E reply \in StatusReplies, d \in PollDurations : PollStatus(reply, d)
    \/ Sleep
    \/ Summary

SpecPurchase == PurchaseInit /\ [][NextPurchase]_vars

\* main() is one coroutine that runs on: every request has a timeout and
\* every sleep returns, so a step that can be taken is taken.
SpecPurchaseLive == SpecPurchase /\ WF_vars(NextPurchase)

-----------------------------------------------------------------------------
(* C1: the normalizer against the rule table                               *)

StrippedChars == {" ", "-", "(", ")"}

TableStripped(raw) ==
    LET Kept(c) == c \notin StrippedChars IN SelectSeq(raw, Kept)

TableDigits(raw) ==
    LET IsDigit(c) == c \in Digit IN SelectSeq(TableStripped(raw), IsDigit)

TableHasPlus(raw) == TableStripped(raw) # << >> /\ Head(TableStripped(raw)) = "+"

\* Rule i of the table applies to digit string d (plus: the stripped input
\* starts with "+").  Rules 1-5 are the "+" rules, 6-7 the rules without
\* "+", 8 the final fallback.
TableRuleApplies(i, plus, d) ==
    CASE i = 1 -> plus /\ Len(d) = 11 /\ d[1] = "1"
      [] i = 2 -> plus /\ Len(d) >= 10 /\ SubSeq(d, 1, 2) = <<"9","1">>
      [] i = 3 -> plus /\ Len(d) >= 10 /\ SubSeq(d, 1, 2) \in TwoDigitCodes
      [] i = 4 -> plus /\ Len(d) >= 10 /\ d[1] \in {"1", "7"}
      [] i = 5 -> plus /\ Len(d) >= 10 /\ SubSeq(d, 1, 3) \in ThreeDigitCodes
      [] i = 6 -> Len(d) = 10 /\ d[1] = "9"
      [] i = 7 -> Len(d) = 11 /\ d[1] = "1"
      [] i = 8 -> TRUE

\* How many leading digits rule i takes as the country code, and how many it
\* removes from the local number.
TableRuleCode(i, d) ==
    CASE i \in {1, 4, 7} -> SubSeq(d, 1, 1)
      [] i \in {2, 3}    -> SubSeq(d, 1, 2)
      [] i = 5           -> SubSeq(d, 1, 3)
      [] i = 6           -> <<"9","1">>
      [] i = 8           -> << >>

TableRuleLocal(i, d) ==
    CASE i \in {1, 4, 7} -> SubSeq(d, 2, Len(d))
      [] i \in {2, 3}    -> SubSeq(d, 3, Len(d))
      [] i = 5           -> SubSeq(d, 4, Len(d))
      [] i \in {6, 8}    -> d

TableResult(raw) ==
    LET d     == TableDigits(raw)
        plus  == TableHasPlus(raw)
        first == CHOOSE i \in 1..8 :
                    /\ TableRuleApplies(i, plus, d)
                    /\ \A j \in 1..(i - 1) : ~TableRuleApplies(j, plus, d)
    IN  << TableRuleCode(first, d), TableRuleLocal(first, d) >>

C1_Examples ==
    /\ ExtractCountryCodeAndPhone(<<"9","8","1","2","3","4","5","6","7","8">>)
          = << <<"9","1">>, <<"9","8","1","2","3","4","5","6","7","8">> >>
    /\ ExtractCountryCodeAndPhone(<<"+","4","4","1","2","3","4","5","6","7","8","9","0">>)
          = << <<"4","4">>, <<"1","2","3","4","5","6","7","8","9","0">> >>
    /\ ExtractCountryCodeAndPhone(<<"1","2","3">>) = << <<>>, <<"1","2","3">> >>
    /\ ExtractCountryCodeAndPhone(<<"+","1"," ","(","2","1","2",")"," ","5","5","5","-","0","1","0","0">>)
          = << <<"1">>, <<"2","1","2","5","5","5","0","1","0","0">> >>

-----------------------------------------------------------------------------
(* Shorthands for the claims about execute_task                            *)

Success == <<"s","u","c","c","e","s","s">>

Failed == <<"f","a","i","l","e","d">>

UsNumber == <<"+","1"," ","(","2","1","2",")"," ","5","5","5","-","0","1","0","0">>

\* The key of the caller's dict is missing or holds an empty string.
MissingOrEmpty(field) == field = << >> \/ field[1] = << >>

InputIsValid(r) ==
    /\ ~MissingOrEmpty(input_data[r].receiver)
    /\ ~MissingOrEmpty(input_data[r].content)

\* The gateway's reply to the one POST of request r.
GatewayReply(r) == posts[r][1].reply

Answered200(r) ==
    /\ posts[r] # << >>
    /\ GatewayReply(r).kind = "response"
    /\ GatewayReply(r).response.status_code = 200

-----------------------------------------------------------------------------
(* C2: which 200 responses count as success                                *)

\* The status field is a string or an integer and equals "success" or "1",
\* strings compared without regard to case.
ClaimedStatusSuccess(body) ==
    /\ body.status # << >>
    /\ \/ /\ body.status[1].t = "str"
          /\ Lower(body.status[1].s) \in {Success, <<"1">>}
       \/ /\ body.status[1].t = "int"
          /\ body.status[1].n = 1

\* A message_id field is present and not null.
ClaimedMessageId(body) ==
    /\ body.message_id # << >>
    /\ body.message_id[1].t # "null"

ClaimedSuccess(body) ==
    /\ body.kind = "object"
    /\ ClaimedStatusSuccess(body) \/ ClaimedMessageId(body)

\* C2: on HTTP 200, _send_whatsapp_message returns true exactly when the
\* body is JSON and its status equals "success" or "1" or a message_id is
\* present and non-null; false for any other status and for a non-JSON body.
C2_SuccessIffStatusOrMessageId ==
    \A r \in Reqs :
        (dispatch_calls[r] # << >> /\ Answered200(r)) =>
            (dispatch_calls[r][1].ret <=> ClaimedSuccess(GatewayReply(r).response.body))

\* What the code does instead: a message_id counts only when it is truthy
\* (a non-empty string, a non-zero number).
C2_SuccessIffStatusOrTruthyMessageId ==
    \A r \in Reqs :
        (dispatch_calls[r] # << >> /\ Answered200(r)) =>
            LET body == GatewayReply(r).response.body
            IN  dispatch_calls[r][1].ret <=>
                    /\ body.kind = "object"
                    /\ \/ ClaimedStatusSuccess(body)
                       \/ ClaimedMessageId(body) /\ Truthy(body.message_id[1])

-----------------------------------------------------------------------------
(* C3: the credential short-circuit                                        *)

CredentialNames == << "WBIZTOOL_CLIENT_ID", "WBIZTOOL_API_KEY", "WBIZTOOL_WHATSAPP_CLIENT" >>

CredentialValues == << wbiztool_client_id, wbiztool_api_key, wbiztool_whatsapp_client >>

SomeCredentialEmpty == \E i \in 1..3 : CredentialValues[i] = << >>

\* The first empty credential in the order client id, API key, channel id.
FirstEmptyCredential ==
    CredentialNames[CHOOSE i \in 1..3 :
        /\ CredentialValues[i] = << >>
        /\ \A j \in 1..(i - 1) : CredentialValues[j] # << >>]

Warnings(r) ==
    LET IsWarning(rec) == rec.level = "warning" IN SelectSeq(log[r], IsWarning)

\* C3: with any of the three credentials empty the dispatcher returns false
\* and no POST is made; the only warning logged names the first empty one in
\* the order client id, API key, channel id.
C3_EmptyCredentialShortCircuits ==
    \A r \in Reqs :
        (dispatch_calls[r] # << >> /\ SomeCredentialEmpty) =>
            /\ dispatch_calls[r][1].exc = << >>
            /\ dispatch_calls[r][1].ret = FALSE
            /\ posts[r] = << >>
            /\ logger => /\ Len(Warnings(r)) = 1
                         /\ Warnings(r)[1].args = << FirstEmptyCredential >>

\* The client id is set, the API key is not, and the dispatcher has run.
C3_Witness ==
    /\ logger
    /\ wbiztool_client_id # << >>
    /\ wbiztool_api_key = << >>
    /\ wbiztool_whatsapp_client # << >>
    /\ dispatch_calls["r1"] # << >>
    /\ receiver["r1"] = UsNumber

-----------------------------------------------------------------------------
(* C4: the formatter's fallback                                            *)

GeminiFailed(r) ==
    /\ gemini_calls[r] # << >>
    /\ gemini_calls[r][1].outcome.kind # "ok"

\* C4: when generate_content or reading response.text raises, the formatter
\* returns exactly the text it was given and execute_task sees no error.
C4_FormatterFallsBackToInput ==
    \A r \in Reqs :
        GeminiFailed(r) =>
            /\ pc[r] # "raised"
            /\ error[r] = << >>
            /\ formatted_content[r] = content[r]
            /\ formatted_content[r] = input_data[r].content[1]

\* Reading response.text raised and the formatter has returned.
C4_Witness ==
    /\ pc["r1"] = "dispatch"
    /\ gemini_calls["r1"][1].outcome.kind = "raise_text"
    /\ formatted_content["r1"] = <<"h","e","l","l","o">>

-----------------------------------------------------------------------------
(* C5: validation comes before any network call                            *)

\* C5: a request whose receiver or content is missing or empty ends in a
\* ValueError with no Gemini call, no dispatcher call and no POST made.
C5_InvalidInputRaisesBeforeNetwork ==
    \A r \in Reqs :
        (pc[r] # "idle" /\ ~InputIsValid(r)) =>
            /\ pc[r] = "raised"
            /\ error[r] = << "ValueError" >>
            /\ result[r] = << >>
            /\ gemini_calls[r] = << >>
            /\ dispatch_calls[r] = << >>
            /\ posts[r] = << >>

\* A request with a receiver and an empty content has been rejected.
C5_Witness ==
    /\ pc["r1"] = "raised"
    /\ input_data["r1"].receiver = << UsNumber >>
    /\ input_data["r1"].content = << << >> >>

-----------------------------------------------------------------------------
(* C6: past validation execute_task returns, and gateway problems give     *)
(* sent = false                                                            *)

\* The reply is a gateway-side problem: an exception, a status other than
\* 200, a body that is not a JSON object, or an object whose status is not a
\* success value and that carries no message id.
ReplyIsProblem(reply) ==
    \/ reply.kind = "raise"
    \/ reply.response.status_code # 200
    \/ reply.response.body.kind # "object"
    \/ /\ ~ClaimedStatusSuccess(reply.response.body)
       /\ ~ClaimedMessageId(reply.response.body)

\* C6: a request that passed validation never ends in an exception; once
\* execute_task has finished it has returned a ServiceResult, with sent =
\* false whenever no POST was made or the gateway's reply was a problem.
C6_ReturnsResultAndFailsClosed ==
    \A r \in Reqs :
        (pc[r] # "idle" /\ InputIsValid(r)) =>
            /\ pc[r] \in {"format", "dispatch", "returned"}
            /\ error[r] = << >>
            /\ pc[r] = "returned" =>
                  /\ result[r] # << >>
                  /\ (posts[r] = << >> \/ ReplyIsProblem(GatewayReply(r)))
                        => result[r][1].sent = FALSE

\* The gateway answered 200 with JSON that is not an object (the .get call
\* raises inside dispatch) and a result was still returned.
C6_Witness ==
    /\ pc["r1"] = "returned"
    /\ Answered200("r1")
    /\ GatewayReply("r1").response.body.kind = "non_object"
    /\ result["r1"] # << >>

\* The client id is not a number (int() raises inside dispatch).
C6_WitnessBadClientId ==
    /\ pc["r1"] = "returned"
    /\ MissingCredential = ""
    /\ ~IsIntLiteral(wbiztool_client_id)
    /\ result["r1"] # << >>

-----------------------------------------------------------------------------
(* C7: format, then dispatch what the formatter returned                   *)

\* What the formatter returned for request r, from the outcome of its
\* Gemini call.
FormatterReturned(r) ==
    IF gemini_calls[r][1].outcome.kind = "ok"
    THEN gemini_calls[r][1].outcome.text
    ELSE input_data[r].content[1]

\* C7: the dispatcher is never invoked, and no POST is made, before the
\* formatter call has completed; the message it is handed, and the msg of
\* the POST, is the formatter's return value.
C7_DispatchAfterFormatWithItsOutput ==
    \A r \in Reqs :
        /\ pc[r] \in {"idle", "format"} => (dispatch_calls[r] = << >> /\ posts[r] = << >>)
        /\ dispatch_calls[r] # << >> =>
              /\ Len(gemini_calls[r]) = 1
              /\ dispatch_calls[r][1].message = FormatterReturned(r)
        /\ \A i \in 1..Len(posts[r]) : posts[r][i].data.msg = FormatterReturned(r)

\* A POST carrying a formatted text that differs from the raw text.
C7_Witness ==
    /\ posts["r1"] # << >>
    /\ content["r1"] = <<"h","i">>
    /\ posts["r1"][1].data.msg = <<"*","H","e","l","l","o","*">>

-----------------------------------------------------------------------------
(* C8: formatted_content of the result                                     *)

\* C8: every ServiceResult returned has a non-empty formatted_content.
C8_FormattedContentNonEmpty ==
    \A r \in Reqs :
        result[r] # << >> => result[r][1].formatted_content # << >>

\* What the code guarantees: formatted_content is empty only when the
\* Gemini call succeeded with an empty text.
C8_EmptyOnlyWhenGeminiReturnsEmpty ==
    \A r \in Reqs :
        (result[r] # << >> /\ result[r][1].formatted_content = << >>) =>
            /\ gemini_calls[r][1].outcome.kind = "ok"
            /\ gemini_calls[r][1].outcome.text = << >>

-----------------------------------------------------------------------------
(* C9: one delivery attempt                                                *)

\* C9: a request invokes the dispatcher at most once and makes at most one
\* POST; once it has returned, the dispatcher ran exactly once and sent is
\* what that one invocation returned.
C9_SingleDeliveryAttempt ==
    \A r \in Reqs :
        /\ Len(dispatch_calls[r]) <= 1
        /\ Len(posts[r]) <= 1
        /\ Len(gemini_calls[r]) <= 1
        /\ pc[r] = "returned" =>
              /\ Len(dispatch_calls[r]) = 1
              /\ sent[r] = dispatch_calls[r][1].ret
              /\ result[r][1].sent = dispatch_calls[r][1].ret

\* C9: a finished request is final: nothing of it changes afterwards, so a
\* failed attempt is never retried.
C9_FinishedIsFinal ==
    [][\A r \in Reqs :
          pc[r] \in {"returned", "raised"} =>
              /\ pc'[r] = pc[r]
              /\ posts'[r] = posts[r]
              /\ dispatch_calls'[r] = dispatch_calls[r]
              /\ result'[r] = result[r]]_vars

\* The one POST timed out and the request returned sent = false.
C9_Witness ==
    /\ pc["r1"] = "returned"
    /\ Len(posts["r1"]) = 1
    /\ GatewayReply("r1").kind = "raise"
    /\ GatewayReply("r1").exc = "Timeout"
    /\ result["r1"][1].sent = FALSE

-----------------------------------------------------------------------------
(* C10: the fields of the ServiceResult                                    *)

\* C10: the result carries the receiver and the text as the caller supplied
\* them, the formatter's return value and the dispatcher's outcome, and its
\* JSON form carries the same four values and task = "whatsapp_agent".
C10_ResultFields ==
    \A r \in Reqs :
        result[r] # << >> =>
            LET res == result[r][1]
            IN  /\ res.receiver = input_data[r].receiver[1]
                /\ res.original_content = input_data[r].content[1]
                /\ res.formatted_content = FormatterReturned(r)
                /\ res.sent = dispatch_calls[r][1].ret
                /\ res.json_dict.receiver = input_data[r].receiver[1]
                /\ res.json_dict.original_content = input_data[r].content[1]
                /\ res.json_dict.formatted_content = FormatterReturned(r)
                /\ res.json_dict.sent = dispatch_calls[r][1].ret
                /\ res.json_dict.task = "whatsapp_agent"
                /\ DOMAIN res.json_dict =
                      {"receiver", "original_content", "formatted_content", "sent", "task"}

\* The spec's end-to-end scenario: "+1 (212) 555-0100", "hello", the gateway
\* answers {"status": "success"}; the receiver is not the normalized number.
C10_Witness ==
    /\ result["r1"] # << >>
    /\ posts["r1"] # << >>
    /\ result["r1"][1].receiver = UsNumber
    /\ result["r1"][1].receiver # posts["r1"][1].data.phone
    /\ result["r1"][1].original_content = <<"h","e","l","l","o">>
    /\ result["r1"][1].formatted_content = <<"*","H","e","l","l","o","*">>
    /\ result["r1"][1].sent = TRUE
    /\ GatewayReply("r1").response.body = Body("object", << JStr(Success) >>, << >>)

-----------------------------------------------------------------------------
(* C11: the payload of a POST                                              *)

\* C11: every POST made by a dispatcher call carries as country_code and
\* phone the pair the rule table gives for that call's destination, as msg
\* the call's message unchanged, and msg_type 0.
C11_PayloadCarriesNormalizedPhone ==
    \A r \in Reqs :
        \A i \in 1..Len(posts[r]) :
            LET data == posts[r][i].data
                call == dispatch_calls[r][1]
            IN  /\ data.country_code = TableResult(call.receiver)[1]
                /\ data.phone = TableResult(call.receiver)[2]
                /\ data.msg = call.message
                /\ data.msg_type = 0

\* A POST for the US number, whose code and local number differ from it.
C11_Witness ==
    /\ posts["r1"] # << >>
    /\ dispatch_calls["r1"][1].receiver = UsNumber
    /\ posts["r1"][1].data.country_code = <<"1">>
    /\ posts["r1"][1].data.phone = <<"2","1","2","5","5","5","0","1","0","0">>

\* A POST whose country_code is empty.
C11_WitnessEmptyCode ==
    /\ posts["r1"] # << >>
    /\ posts["r1"][1].data.country_code = << >>
    /\ posts["r1"][1].data.phone = <<"1","2","3">>

-----------------------------------------------------------------------------
(* C12: the API key and the log                                            *)

\* sub occurs in s as a contiguous run of characters.
Contains(s, sub) ==
    \E i \in 1..(Len(s) - Len(sub) + 1) : SubSeq(s, i, i + Len(sub) - 1) = sub

\* The records whose argument is an exception class, a setting's name or a
\* boolean, not a string of the program.
NonTextMessages ==
    { "Error formatting with Gemini", "not configured, skipping WhatsApp send",
      "Network error sending WhatsApp message", "Error sending WhatsApp message",
      "WhatsApp agent task completed" }

\* The strings a log record shows.
TextArgs(rec) == IF rec.msg \in NonTextMessages THEN << >> ELSE rec.args

ShowsApiKey(rec) ==
    \E j \in 1..Len(TextArgs(rec)) : Contains(TextArgs(rec)[j], wbiztool_api_key)

\* Everything logged at construction and for request r.
AllRecords(r) == startup_log \o log[r]

PayloadRecords(r) ==
    LET IsPayload(rec) == rec.msg = "Payload" IN SelectSeq(log[r], IsPayload)

\* The logged payload shows "***" for api_key and every other field of
\* the POST's payload as it is.
PayloadLoggedMasked(r) ==
    (logger /\ posts[r] # << >>) =>
        /\ Len(PayloadRecords(r)) = 1
        /\ PayloadRecords(r)[1].args =
              << IntToStr(posts[r][1].data.client_id), <<"*","*","*">>,
                 IntToStr(posts[r][1].data.whatsapp_client), posts[r][1].data.phone,
                 posts[r][1].data.country_code, posts[r][1].data.msg, <<"0">> >>

ResponseMessages ==
    { "Failed to parse JSON response", "WbizTool API response", "WbizTool API error",
      "Full response" }

\* What the code guarantees: the payload is logged masked, and a record
\* shows the API key only when it shows an answer in which the gateway
\* repeated the key.
C12_ApiKeyOnlyFromGatewayAnswer ==
    \A r \in Reqs :
        /\ PayloadLoggedMasked(r)
        /\ wbiztool_api_key # << >> =>
              \A i \in 1..Len(AllRecords(r)) :
                  ShowsApiKey(AllRecords(r)[i]) =>
                      /\ AllRecords(r)[i].msg \in ResponseMessages
                      /\ posts[r] # << >>
                      /\ GatewayReply(r).kind = "response"
                      /\ GatewayReply(r).response.echo

-----------------------------------------------------------------------------
(* C13: two calls on one instance                                          *)

\* Everything the model keeps for call r.
TaskOf(r) ==
    << pc[r], input_data[r], receiver[r], content[r], formatted_content[r], sent[r],
       result[r], error[r], gemini_calls[r], dispatch_calls[r], posts[r], log[r] >>

\* What call r computes from its own input and from what the two external
\* services did with its own requests.
OwnReceiver(r) == DictGet(input_data[r], "receiver", << >>)

OwnContent(r) == DictGet(input_data[r], "content", << >>)

OwnFormatted(r) == FormatWithGemini(OwnContent(r), gemini_calls[r][1].outcome).ret

BuiltFromOwnValues(r) ==
    /\ pc[r] # "idle" => (receiver[r] = OwnReceiver(r) /\ content[r] = OwnContent(r))
    /\ pc[r] = "dispatch" => formatted_content[r] = OwnFormatted(r)
    /\ dispatch_calls[r] # << >> =>
          /\ dispatch_calls[r][1].receiver = OwnReceiver(r)
          /\ dispatch_calls[r][1].message = OwnFormatted(r)
    /\ \A i \in 1..Len(posts[r]) :
          posts[r][i].data =
              Payload(ExtractCountryCodeAndPhone(OwnReceiver(r)), OwnFormatted(r))
    /\ result[r] # << >> =>
          \E gw \in ConcurrentGatewayBehaviours :
              /\ posts[r] # << >> => posts[r][1].reply = gw
              /\ result[r][1] =
                    ServiceResult(OwnReceiver(r), OwnContent(r), OwnFormatted(r),
                        SendWhatsappMessage(OwnReceiver(r), OwnFormatted(r), gw).ret)

\* C13: under every interleaving of two execute_task calls no field of the
\* service is written, a step of one call changes nothing of the other, and
\* each call's POST and ServiceResult are built from its own receiver, its
\* own text, its own Gemini outcome and its own gateway reply.
C13_ConcurrentCallsIndependent ==
    /\ [](\A r \in Reqs : BuiltFromOwnValues(r))
    /\ [][ /\ service' = service
           /\ \A r \in Reqs : pc'[r] = pc[r] => TaskOf(r)' = TaskOf(r) ]_vars

\* Both calls in flight at once with different values: r2 has returned a
\* delivered message while r1, with another receiver and another text,
\* stands between its formatter call and its dispatcher call.
C13_Witness ==
    /\ pc["r1"] = "dispatch"
    /\ pc["r2"] = "returned"
    /\ result["r2"][1].sent = TRUE
    /\ receiver["r1"] # receiver["r2"]
    /\ formatted_content["r1"] = <<"h","e","l","l","o">>
    /\ result["r2"][1].formatted_content = <<"*","H","e","l","l","o","*">>

\* Both calls have returned, with results that differ in every field.
C13_WitnessBothReturned ==
    /\ result["r1"] # << >>
    /\ result["r2"] # << >>
    /\ result["r1"][1].receiver # result["r2"][1].receiver
    /\ result["r1"][1].original_content # result["r2"][1].original_content
    /\ result["r1"][1].formatted_content # result["r2"][1].formatted_content
    /\ result["r1"][1].sent # result["r2"][1].sent

-----------------------------------------------------------------------------
(* C14: the steps of the purchase script are gated in order                *)

KeyIsSet == PURCHASER_API_KEY # << >> /\ PURCHASER_API_KEY[1] # ""

\* The request got an answer that is not an HTTP error.
RequestSucceeded(call) ==
    call.reply.kind = "response" /\ call.reply.status_code < 400

RequiredJobFields ==
    { "job_id", "blockchainIdentifier", "amounts", "input_hash", "sellerVKey",
      "agentIdentifier", "unlockTime", "externalDisputeUnlockTime",
      "submitResultTime", "payByTime", "identifierFromPurchaser" }

\* The answer to start_job is an object with every field the script reads.
JobFieldsComplete(call) ==
    /\ call.reply.body.json = "object"
    /\ RequiredJobFields \subseteq DOMAIN call.reply.body.obj
    /\ call.reply.body.obj["amounts"] # << >>
    /\ call.reply.body.obj["amounts"][1].amount # << >>

StepPaths == << "/availability", "/start_job", "/purchase" >>

StepFailed(i) ==
    \/ ~RequestSucceeded(calls[i])
    \/ i = 2 /\ ~JobFieldsComplete(calls[i])

PollingBegun == polls > 0 \/ step \in {"loop", "poll", "sleep", "summary", "done"}

\* C14: the requests are made in the order availability, start_job,
\* purchase; none is made without a purchaser key; the purchase POST is made
\* only after an availability check and a start_job request that succeeded,
\* the latter with all job fields; polling begins only after a purchase
\* request that succeeded; a step that fails is the last one, and the run
\* has ended.
C14_StepsGatedInOrder ==
    /\ Len(calls) <= Len(StepPaths)
    /\ \A i \in 1..Len(calls) : calls[i].url[2] = StepPaths[i]
    /\ ~KeyIsSet => (calls = << >> /\ polls = 0 /\ step \in {"config", "ended"})
    /\ Len(calls) = 3 =>
          /\ RequestSucceeded(calls[1])
          /\ RequestSucceeded(calls[2])
          /\ JobFieldsComplete(calls[2])
          /\ calls[3].token = PURCHASER_API_KEY
    /\ PollingBegun => (Len(calls) = 3 /\ RequestSucceeded(calls[3]))
    /\ \A i \in 1..Len(calls) :
          StepFailed(i) => (i = Len(calls) /\ step = "ended" /\ polls = 0)

\* A whole run: the three requests were made, the job was polled, the
\* summary was printed.
C14_Witness ==
    /\ step = "done"
    /\ Len(calls) = 3
    /\ polls > 0
    /\ tx_hash = << "tx-2" >>

\* A run that ended in step 2 because the job lacks a field.
C14_WitnessMissingField ==
    /\ step = "ended"
    /\ Len(calls) = 2
    /\ RequestSucceeded(calls[2])
    /\ calls[2].reply.body.json = "object"
    /\ "payByTime" \notin DOMAIN calls[2].reply.body.obj

\* A run that ended at the payment, which the payment service refused.
C14_WitnessPaymentRefused ==
    /\ step = "ended"
    /\ Len(calls) = 3
    /\ calls[3].reply.status_code = 402
    /\ polls = 0

-----------------------------------------------------------------------------
(* C15: the polling loop ends and the summary is printed                   *)

TerminalStatuses == { << "completed" >>, << "failed" >> }

InLoop == step \in {"loop", "poll", "sleep"}

\* C15: the loop is left as soon as a poll reports completed or failed, and
\* otherwise at the first test after 300 seconds; no poll begins after 300
\* seconds, so there are at most 300 / 5 polls; a poll that raises or
\* reports another status is followed by a wait of 5 seconds and the next
\* test; and once polling has begun the summary is printed.
C15_PollingTerminates ==
    /\ [](InLoop => last_status \notin TerminalStatuses)
    /\ [](step \in {"summary", "done"} =>
             (last_status \in TerminalStatuses \/ elapsed >= MaxWait))
    /\ [](step = "poll" => elapsed < MaxWait)
    /\ [](polls * SleepSeconds <= MaxWait)
    /\ [][ /\ (step = "poll" /\ last_status' \notin TerminalStatuses) => step' = "sleep"
           /\ step = "sleep" => (step' = "loop" /\ elapsed' = elapsed + SleepSeconds)
           /\ (step = "loop" /\ elapsed < MaxWait) => step' = "poll"
           /\ (step = "loop" /\ elapsed >= MaxWait) => step' = "summary" ]_vars
    /\ (step = "loop") ~> (step = "done")

\* The loop ran out of time: every poll was answered at once with a job
\* that is still running, and the summary was printed after the 60th.
C15_Witness ==
    /\ step = "done"
    /\ polls * SleepSeconds = MaxWait
    /\ elapsed >= MaxWait
    /\ last_status = << "running" >>

\* The loop was left early, on a job reported failed after several polls.
C15_WitnessFailedJob ==
    /\ step = "done"
    /\ polls > 2
    /\ elapsed < MaxWait
    /\ last_status = << "failed" >>

\* The loop ran past the limit: the last poll began before 300 seconds and
\* the wait after it ended later.
C15_WitnessLateExit ==
    /\ step = "done"
    /\ elapsed > MaxWait
    /\ last_status \notin TerminalStatuses

=============================================================================
